---- MODULE Spec2Model ----
(***************************************************************************)
(* A model of lemon_tizer's LemonTizer class (src/src/lemon_tizer/main.py). *)
(*                                                                         *)
(* Strings are sequences of one-character strings.  The spacy            *)
(* collaborators (get_compatibility, is_package, cli.download, load, the  *)
(* Language object called on a text) are opaque: what they answer is a    *)
(* nondeterministic choice, what the class does with the answer is        *)
(* translated from the code.                                              *)
(***************************************************************************)
EXTENDS Integers, Sequences, FiniteSets, TLC

VARIABLES
    constructed,       \* the caller holds a LemonTizer instance
    self,              \* the instance's attributes: the five settings, _model_name, _nlp
    available_models,  \* what get_compatibility().keys() lists, in iteration order
    installed,         \* the packages spacy.util.is_package finds
    call,              \* the last public call and its arguments
    ret                \* its outcome and the collaborator calls it made

vars == <<constructed, self, available_models, installed, call, ret>>

----------------------------------------------------------------------------
(* Bounds *)

MaxCode == 2       \* longest language / model_size argument
MaxEntry == 3      \* longest catalog entry of the resolver specification
MaxCatalog == 2    \* most catalog entries of the resolver specification
MaxLemma == 3      \* longest lemma string
MaxTokens == 2     \* most tokens in a text

----------------------------------------------------------------------------
(* Strings *)

StringsUpTo(chars, n) == UNION {[1..k -> chars] : k \in 0..n}

\* str.lower() on one character
LowerChar(c) ==
    CASE c = "A" -> "a"
      [] c = "B" -> "b"
      [] c = "Y" -> "y"
      [] OTHER -> c

\* str.lower()
Lower(s) == [i \in 1..Len(s) |-> LowerChar(s[i])]

\* str.isspace() on one character
IsSpace(c) == c = " "

\* str.split(): the maximal runs of non-whitespace characters, in order
RECURSIVE Split(_)
Split(s) ==
    IF s = <<>> THEN <<>>
    ELSE IF IsSpace(Head(s)) THEN Split(Tail(s))
    ELSE LET rest == Split(Tail(s))
         IN IF Len(s) > 1 /\ ~IsSpace(s[2])
            THEN <<(<<Head(s)>> \o Head(rest))>> \o Tail(rest)
            ELSE <<(<<Head(s)>>)>> \o rest

----------------------------------------------------------------------------
(* Python's re, for the patterns made of literals, '.', '*' and a leading '^' *)

\* re.compile raises re.error ("nothing to repeat", "multiple repeat") when a
\* '*' has no atom before it
CompileFails(p) ==
    \E i \in 1..Len(p) :
        /\ p[i] = "*"
        /\ (i = 1 \/ p[i - 1] = "*" \/ (i = 2 /\ p[1] = "^"))

\* one pattern atom against one character ('.' is any character)
AtomMatches(a, c) == a = "." \/ a = c

\* Pattern.match: the pattern from position i matches a prefix of s[j..]
RECURSIVE MatchHere(_, _, _, _)
MatchHere(p, i, s, j) ==
    IF i > Len(p) THEN TRUE
    ELSE IF i = 1 /\ p[1] = "^" THEN MatchHere(p, 2, s, j)
    ELSE IF i < Len(p) /\ p[i + 1] = "*"
         THEN \/ MatchHere(p, i + 2, s, j)
              \/ /\ j <= Len(s)
                 /\ AtomMatches(p[i], s[j])
                 /\ MatchHere(p, i, s, j + 1)
    ELSE /\ j <= Len(s)
         /\ AtomMatches(p[i], s[j])
         /\ MatchHere(p, i + 1, s, j + 1)

\* regex.match(entry) is not None
RegexMatch(p, s) == MatchHere(p, 1, s, 1)

\* list(filter(regex.match, available_models))
RECURSIVE FilterMatch(_, _)
FilterMatch(p, models) ==
    IF models = <<>> THEN <<>>
    ELSE IF RegexMatch(p, Head(models))
         THEN <<Head(models)>> \o FilterMatch(p, Tail(models))
         ELSE FilterMatch(p, Tail(models))

----------------------------------------------------------------------------
(* Outcomes of a call *)

\* a normal return of v; an exception e raised with the arguments a
Return(v) == [exc |-> "none", value |-> v, args |-> <<>>, calls |-> <<>>]
Raise(e, a) == [exc |-> e, value |-> <<>>, args |-> a, calls |-> <<>>]

\* Python's None
None == <<>>

\* one call to a method or collaborator: what was called, on what, how it ended
Did(fn, arg, out) == [fn |-> fn, arg |-> arg, out |-> out]

\* an outcome together with the calls made on the way to it
WithCalls(outcome, log) == [outcome EXCEPT !.calls = log]

ModelNotFoundText == "Model not found for language and model size combination"
NoModelsFoundText == "No models found for language"

\* LemonTizer.find_model_name
find_model_name(language, model_size, models) ==
    LET lang == Lower(language)
        size == Lower(model_size)
        full == lang \o <<".", "*">> \o size
        prefix == <<"^">> \o lang
    IN  IF CompileFails(full) THEN Raise("re.error", <<>>)
        ELSE IF Len(FilterMatch(full, models)) > 0
             THEN Return(FilterMatch(full, models)[1])
        ELSE IF CompileFails(prefix) THEN Raise("re.error", <<>>)
        ELSE IF Len(FilterMatch(prefix, models)) > 0
             THEN Raise("ValueError", <<ModelNotFoundText, lang, size>>)
        ELSE Raise("ValueError", <<NoModelsFoundText, lang, size>>)


----------------------------------------------------------------------------
(* The instance *)

OptionNames == {"filter_out_non_alpha", "filter_out_common", "convert_input_to_lower",
                "convert_output_to_lower", "return_just_first_word_of_lemma"}

\* an attribute that has not been assigned yet
Unset == <<>>

\* the Language object spacy.load(name) returns
Language(name) == <<name>>

\* the attributes of an instance before __init__ has assigned any of them
NewInstance ==
    [filter_out_non_alpha |-> FALSE, filter_out_common |-> FALSE,
     convert_input_to_lower |-> FALSE, convert_output_to_lower |-> FALSE,
     return_just_first_word_of_lemma |-> FALSE,
     model_name |-> Unset, nlp |-> Unset]

\* a keyword argument, False when the caller leaves it out
Arg(kwargs, name) == IF name \in DOMAIN kwargs THEN kwargs[name] ELSE FALSE

\* set_lemma_settings assigning only the options the caller passed
set_lemma_settings_passed_only(obj, kwargs) ==
    [n \in DOMAIN obj |-> IF n \in DOMAIN kwargs THEN kwargs[n] ELSE obj[n]]

\* LemonTizer.set_lemma_settings
set_lemma_settings(obj, kwargs) ==
    [obj EXCEPT !.filter_out_non_alpha = Arg(kwargs, "filter_out_non_alpha"),
                !.filter_out_common = Arg(kwargs, "filter_out_common"),
                !.convert_input_to_lower = Arg(kwargs, "convert_input_to_lower"),
                !.convert_output_to_lower = Arg(kwargs, "convert_output_to_lower"),
                !.return_just_first_word_of_lemma =
                    Arg(kwargs, "return_just_first_word_of_lemma")]

NoKwargs == [n \in {} |-> FALSE]

----------------------------------------------------------------------------
(* lemmatize_sentence *)

\* {token.text: lemma}
word_dict(text, lemma) == [key |-> text, lemma |-> lemma]

\* the loop over doc of LemonTizer.lemmatize_sentence
RECURSIVE lemmatize_loop(_, _, _)
lemmatize_loop(obj, doc, word_list) ==
    IF doc = <<>> THEN Return(word_list)
    ELSE LET token == Head(doc)
             is_not_word == (~token.is_alpha) /\ obj.filter_out_non_alpha
             is_common == token.is_stop /\ obj.filter_out_common
             skip_word == is_not_word \/ is_common
         IN  IF skip_word THEN lemmatize_loop(obj, Tail(doc), word_list)
             ELSE IF obj.return_just_first_word_of_lemma /\ Split(token.lemma_) = <<>>
                  THEN Raise("IndexError", <<>>)
             ELSE LET first == IF obj.return_just_first_word_of_lemma
                               THEN Split(token.lemma_)[1]
                               ELSE token.lemma_
                      lemma == IF obj.convert_output_to_lower THEN Lower(first) ELSE first
                  IN  lemmatize_loop(obj, Tail(doc),
                                     Append(word_list, word_dict(token.text, lemma)))

\* the text handed to self._nlp; a text is the sequence of its surface pieces
nlp_input(obj, input_str) ==
    IF obj.convert_input_to_lower
    THEN [i \in 1..Len(input_str) |-> Lower(input_str[i])]
    ELSE input_str

\* what self._nlp(text) may answer: one token per piece, carrying the piece as its
\* text; lemma_, is_alpha and is_stop are the pipeline's to choose
Docs(text, lemmas) ==
    LET Tags == [lemma_ : lemmas, is_alpha : BOOLEAN, is_stop : BOOLEAN]
    IN  {[i \in 1..Len(text) |->
            [text |-> text[i], lemma_ |-> tags[i].lemma_,
             is_alpha |-> tags[i].is_alpha, is_stop |-> tags[i].is_stop]] :
         tags \in [1..Len(text) -> Tags]}

\* LemonTizer.lemmatize_sentence, given the doc the pipeline answered
lemmatize_sentence(obj, doc) == lemmatize_loop(obj, doc, <<>>)


----------------------------------------------------------------------------
(* init_model *)

\* LemonTizer._load_model: the name is stored before spacy.load is tried
load_model(obj, name, load_ok) ==
    LET named == [obj EXCEPT !.model_name = name]
    IN  IF load_ok
        THEN [obj |-> [named EXCEPT !.nlp = Language(name)], ret |-> Return(None)]
        ELSE [obj |-> named, ret |-> Raise("OSError", <<name>>)]

\* LemonTizer.download_model: spacy.cli.download installs the package or exits
download_model(name, inst, download_ok) ==
    IF download_ok
    THEN [installed |-> inst \cup {name}, ret |-> Return(None)]
    ELSE [installed |-> inst, ret |-> Raise("SystemExit", <<name>>)]

\* LemonTizer.is_model_installed
is_model_installed(name, inst) == name \in inst

\* the if / else of init_model with a failed download swallowed: load is tried anyway
load_or_download_swallowing(obj, name, inst, download_ok, load_ok, log) ==
    LET present == is_model_installed(name, inst)
        asked == Append(log, Did("is_model_installed", name, present))
        got == download_model(name, inst, download_ok)
        fetched == Append(asked, Did("download_model", name, got.ret.exc = "none"))
        loaded == load_model(obj, name, load_ok)
        before == IF present THEN asked ELSE fetched
    IN  [obj |-> loaded.obj, installed |-> IF present THEN inst ELSE got.installed,
         ret |-> WithCalls(loaded.ret,
                           Append(before, Did("_load_model", name,
                                              loaded.ret.exc = "none")))]

\* the if / else of init_model: load, downloading first if necessary
load_or_download(obj, name, inst, download_ok, load_ok, log) ==
    LET present == is_model_installed(name, inst)
        asked == Append(log, Did("is_model_installed", name, present))
        got == download_model(name, inst, download_ok)
        fetched == Append(asked, Did("download_model", name, got.ret.exc = "none"))
        store == IF present THEN inst ELSE got.installed
        loaded == load_model(obj, name, load_ok)
        before == IF present THEN asked ELSE fetched
        after == Append(before, Did("_load_model", name, loaded.ret.exc = "none"))
    IN  IF ~present /\ got.ret.exc # "none"
        THEN [obj |-> obj, installed |-> got.installed,
              ret |-> WithCalls(got.ret, fetched)]
        ELSE [obj |-> loaded.obj, installed |-> store,
              ret |-> WithCalls(loaded.ret, after)]

\* LemonTizer.init_model
init_model(obj, language, model_size, models, inst, download_ok, load_ok) ==
    LET defaults == set_lemma_settings(obj, NoKwargs)
        found == find_model_name(language, model_size, models)
        log == <<Did("find_model_name", found.value, found.exc = "none")>>
    IN  IF found.exc # "none"
        THEN [obj |-> defaults, installed |-> inst, ret |-> WithCalls(found, log)]
        ELSE load_or_download(defaults, found.value, inst, download_ok, load_ok, log)

----------------------------------------------------------------------------
(* Inputs *)

\* language and model_size arguments of the resolver specification
CodeChars == {"a", "A", ".", "*"}
Codes == StringsUpTo(CodeChars, MaxCode)

\* catalogs of the resolver specification: dict keys, so no entry twice
EntryChars == {"a", "b", "."}
Entries == StringsUpTo(EntryChars, MaxEntry) \ {<<>>}
Catalogs == {c \in StringsUpTo(Entries, MaxCatalog) :
                \A i, j \in 1..Len(c) : c[i] = c[j] => i = j}

\* texts and lemmas of the lemmatizer specification
Pieces == {<<"x">>, <<"Y">>}
Texts == StringsUpTo(Pieces, MaxTokens)
LemmaChars == {"a", "B", " "}
Lemmas == StringsUpTo(LemmaChars, MaxLemma)

\* the session: one catalog, a few arguments, short texts
SessionCatalog == << <<"a", "a">>, <<"a", "b">>, <<"b", "b">> >>
SessionLanguages == {<<"a">>, <<"B">>, <<"c">>, <<"*">>}
SessionSizes == {<<"a">>, <<"b">>}
SessionTexts == {<<>>, << <<"Y">> >>}
SessionLemmas == {<<"B">>, <<" ">>}

Range(f) == {f[i] : i \in DOMAIN f}

\* the keyword arguments a caller may pass to set_lemma_settings
Kwargs == UNION {[names -> BOOLEAN] : names \in SUBSET OptionNames}

\* an instance as a successful construction and any set_lemma_settings leave it
LoadedInstances ==
    {[set_lemma_settings(NewInstance, kw) EXCEPT !.model_name = SessionCatalog[1],
                                                 !.nlp = Language(SessionCatalog[1])] :
     kw \in [OptionNames -> BOOLEAN]}

NoCall == [op |-> "none"]

----------------------------------------------------------------------------
(* Actions *)

\* LemonTizer(language, model_size): a failed __init__ hands the caller no instance
Construct ==
    /\ ~constructed
    /\ \E language \in SessionLanguages, model_size \in SessionSizes,
          download_ok \in BOOLEAN, load_ok \in BOOLEAN :
          LET r == init_model(NewInstance, language, model_size, available_models,
                              installed, download_ok, load_ok)
          IN  /\ constructed' = (r.ret.exc = "none")
              /\ self' = IF r.ret.exc = "none" THEN r.obj ELSE NewInstance
              /\ installed' = r.installed
              /\ call' = [op |-> "__init__", language |-> language,
                          model_size |-> model_size]
              /\ ret' = r.ret
    /\ UNCHANGED available_models

\* a later init_model call on the instance
InitModel ==
    /\ constructed
    /\ \E language \in SessionLanguages, model_size \in SessionSizes,
          download_ok \in BOOLEAN, load_ok \in BOOLEAN :
          LET r == init_model(self, language, model_size, available_models,
                              installed, download_ok, load_ok)
          IN  /\ self' = r.obj
              /\ installed' = r.installed
              /\ call' = [op |-> "init_model", language |-> language,
                          model_size |-> model_size]
              /\ ret' = r.ret
    /\ UNCHANGED <<constructed, available_models>>

SetLemmaSettings ==
    /\ constructed
    /\ \E kwargs \in Kwargs :
          /\ self' = set_lemma_settings(self, kwargs)
          /\ call' = [op |-> "set_lemma_settings", kwargs |-> kwargs]
          /\ ret' = Return(None)
    /\ UNCHANGED <<constructed, available_models, installed>>

LemmatizeSentenceOver(texts, lemmas) ==
    /\ constructed
    /\ \E input_str \in texts :
          \E doc \in Docs(nlp_input(self, input_str), lemmas) :
              /\ call' = [op |-> "lemmatize_sentence", input_str |-> input_str]
              /\ ret' = WithCalls(lemmatize_sentence(self, doc),
                                  <<Did("_nlp", nlp_input(self, input_str), doc)>>)
    /\ UNCHANGED <<constructed, self, available_models, installed>>

LemmatizeSentence == LemmatizeSentenceOver(SessionTexts, SessionLemmas)

LemmatizeAny == LemmatizeSentenceOver(Texts, Lemmas)

FindModelName ==
    /\ constructed
    /\ \E language \in Codes, model_size \in Codes :
          /\ call' = [op |-> "find_model_name", language |-> language,
                      model_size |-> model_size]
          /\ ret' = find_model_name(language, model_size, available_models)
    /\ UNCHANGED <<constructed, self, available_models, installed>>

----------------------------------------------------------------------------
(* Specifications *)

\* the life of one instance: construction, model switches, settings, lemmatizing
Init ==
    /\ constructed = FALSE
    /\ self = NewInstance
    /\ available_models = SessionCatalog
    /\ installed \in SUBSET Range(SessionCatalog)
    /\ call = NoCall
    /\ ret = Return(None)

Next == Construct \/ InitModel \/ SetLemmaSettings \/ LemmatizeSentence

Spec == Init /\ [][Next]_vars

\* find_model_name over every catalog and every pair of codes within the bounds
InitResolve ==
    /\ constructed = TRUE
    /\ self \in {o \in LoadedInstances : \A n \in OptionNames : ~o[n]}
    /\ available_models \in Catalogs
    /\ installed = {SessionCatalog[1]}
    /\ call = NoCall
    /\ ret = Return(None)

\* one call from each initial state
ResolveOnce == call = NoCall /\ FindModelName

SpecResolve == InitResolve /\ [][ResolveOnce]_vars

\* lemmatize_sentence over every settings record and every doc within the bounds
InitLemma ==
    /\ constructed = TRUE
    /\ self \in LoadedInstances
    /\ available_models = SessionCatalog
    /\ installed = {SessionCatalog[1]}
    /\ call = NoCall
    /\ ret = Return(None)

\* one call from each initial state
LemmatizeOnce == call = NoCall /\ LemmatizeAny

SpecLemma == InitLemma /\ [][LemmatizeOnce]_vars


----------------------------------------------------------------------------
(* What the claims compare the code with *)

StartsWith(s, p) == Len(p) <= Len(s) /\ SubSeq(s, 1, Len(p)) = p

Contains(s, t) == \E k \in 0..(Len(s) - Len(t)) : SubSeq(s, k + 1, k + Len(t)) = t

\* entry starts with language and holds size somewhere after that prefix, literally
LiteralMatch(entry, language, size) ==
    /\ StartsWith(entry, language)
    /\ Contains(SubSeq(entry, Len(language) + 1, Len(entry)), size)

\* the catalog positions that match the lowercased codes of the last call literally
LiteralHits ==
    {i \in 1..Len(available_models) :
        LiteralMatch(available_models[i], Lower(call.language), Lower(call.model_size))}

Least(S) == CHOOSE i \in S : \A j \in S : i <= j

\* the part of s before its first whitespace character
BeforeFirstWhitespace(s) ==
    LET spaces == {i \in 1..Len(s) : IsSpace(s[i])}
    IN  IF spaces = {} THEN s ELSE SubSeq(s, 1, Least(spaces) - 1)

\* the doc the pipeline answered in the last lemmatize_sentence call
LastDoc == ret.calls[1].out

\* drop = (not is_alphabetic AND filter_out_non_alpha) OR (is_stop_word AND filter_out_common)
Dropped(token) ==
    \/ (~token.is_alpha) /\ self.filter_out_non_alpha
    \/ token.is_stop /\ self.filter_out_common

Kept(token) == ~Dropped(token)

InitCalls == {"__init__", "init_model"}

\* the positions in the last call's log at which fn was called
CallsOf(fn) == {i \in 1..Len(ret.calls) : ret.calls[i].fn = fn}

----------------------------------------------------------------------------
(* Claims about find_model_name, under SpecResolve *)

\* C1: whenever some catalog entry literally starts with the lowercased language and
\* holds the lowercased size after that prefix, find_model_name returns the first
\* such entry in catalog order, unchanged.
C1_FirstLiteralMatchReturned ==
    (call.op = "find_model_name" /\ LiteralHits # {})
        => ret = Return(available_models[Least(LiteralHits)])

\* C2: when no entry matches literally, find_model_name raises the "no models for
\* language" error carrying the language if no entry starts with the language, and
\* the "model not found for the combination" error carrying language and size
\* otherwise; it never returns a name.
C2_TwoErrorKinds ==
    (call.op = "find_model_name" /\ LiteralHits = {})
        => /\ ret.exc = "ValueError"
           /\ Len(ret.args) = 3
           /\ ret.args[2] = Lower(call.language)
           /\ IF \E i \in 1..Len(available_models) :
                     StartsWith(available_models[i], Lower(call.language))
              THEN ret.args[1] = ModelNotFoundText /\ ret.args[3] = Lower(call.model_size)
              ELSE ret.args[1] = NoModelsFoundText

\* C7: every character of language and size is a literal: find_model_name returns a
\* name exactly when some entry matches literally, and the name it returns matches
\* literally.
C7_CodesAreLiterals ==
    call.op = "find_model_name"
        => /\ (ret.exc = "none") <=> (LiteralHits # {})
           /\ ret.exc = "none"
                  => LiteralMatch(ret.value, Lower(call.language), Lower(call.model_size))

----------------------------------------------------------------------------
(* Claims about lemmatize_sentence, under SpecLemma *)

\* C4: lemmatize_sentence never raises, whatever the tokens and the settings.
C4_LemmatizeNeverRaises ==
    call.op = "lemmatize_sentence" => ret.exc = "none"

\* C5: lemmatize_sentence returns one entry per token that is not dropped, in token
\* order, keyed by the token's text, repeated tokens included.
C5_OneEntryPerKeptToken ==
    call.op = "lemmatize_sentence"
        => /\ ret.exc = "none"
           /\ [i \in 1..Len(ret.value) |-> ret.value[i].key]
                  = [i \in 1..Len(SelectSeq(LastDoc, Kept)) |->
                        SelectSeq(LastDoc, Kept)[i].text]

\* C6: with return_just_first_word_of_lemma true the output is the output with it
\* false in which every lemma is cut before its first whitespace (lowercasing
\* unchanged), entry for entry, and cutting an emitted lemma again changes nothing.
C6_FirstWordIsTruncation ==
    (call.op = "lemmatize_sentence" /\ self.return_just_first_word_of_lemma)
        => LET whole == lemmatize_sentence(
                            [self EXCEPT !.return_just_first_word_of_lemma = FALSE],
                            LastDoc).value
           IN  /\ ret.exc = "none"
               /\ ret.value = [i \in 1..Len(whole) |->
                                  word_dict(whole[i].key,
                                            BeforeFirstWhitespace(whole[i].lemma))]
               /\ \A i \in 1..Len(ret.value) :
                      BeforeFirstWhitespace(ret.value[i].lemma) = ret.value[i].lemma

----------------------------------------------------------------------------
(* Claims about the life of an instance, under Spec *)

\* C3: an init_model call (at construction or later) that fails leaves the instance
\* as it was: the five settings, the model name and the pipeline handle keep their
\* values, and a failed construction leaves no instance.
C3_FailedInitKeepsState ==
    [][(call'.op \in InitCalls /\ ret'.exc # "none")
           => (self' = self /\ constructed' = constructed)]_vars

\* C9: whenever the instance holds a pipeline handle, the current model name is the
\* name that handle was loaded from.
C9_NameMatchesHandle ==
    (constructed /\ self.nlp # Unset) => self.nlp = Language(self.model_name)

\* C8: one init_model call resolves first, then asks is_model_installed, downloads
\* exactly when the answer was no, at most once, and loads last, all for the resolved
\* name; a failed download is raised to the caller and nothing is loaded.
C8_ResolveQueryInstallLoad ==
    call.op \in InitCalls
        => LET log == ret.calls
               finds == CallsOf("find_model_name")
               asks == CallsOf("is_model_installed")
               gets == CallsOf("download_model")
               loads == CallsOf("_load_model")
           IN  /\ finds = {1}
               /\ Cardinality(asks) <= 1 /\ Cardinality(gets) <= 1
               /\ Cardinality(loads) <= 1
               /\ \A i \in asks : i = 2 /\ log[1].out /\ log[i].arg = log[1].arg
               /\ (gets # {}) <=> (\E i \in asks : ~log[i].out)
               /\ \A i \in gets : i = 3 /\ log[i].arg = log[1].arg
               /\ \A i \in loads : /\ i = Len(log) /\ asks # {}
                                   /\ log[i].arg = log[1].arg
                                   /\ \A j \in gets : j < i /\ log[j].out
               /\ (\E i \in gets : ~log[i].out)
                      => (loads = {} /\ ret.exc = "SystemExit")
               /\ (log[1].out /\ \A i \in gets : log[i].out) => loads # {}

\* a model switch that had to download the model and loaded it
C8_Witness ==
    /\ call.op = "init_model"
    /\ ret.exc = "none"
    /\ Len(ret.calls) = 4
    /\ ret.calls[3].fn = "download_model"

\* C10: after a successful init_model all five options are false; after
\* set_lemma_settings every option is the value passed, or false if it was left out;
\* set_lemma_settings leaves the model name and the pipeline handle alone.
C10_SettingsReplacedWholesale ==
    /\ []((call.op \in InitCalls /\ ret.exc = "none")
              => \A n \in OptionNames : self[n] = FALSE)
    /\ [](call.op = "set_lemma_settings"
              => \A n \in OptionNames : self[n] = Arg(call.kwargs, n))
    /\ [][call'.op = "set_lemma_settings"
              => (self'.model_name = self.model_name /\ self'.nlp = self.nlp)]_vars

\* set_lemma_settings called on a loaded instance with
\* one option passed as true and the others left out
C10_Witness ==
    /\ call.op = "set_lemma_settings"
    /\ DOMAIN call.kwargs = {"filter_out_common"}
    /\ call.kwargs["filter_out_common"]
    /\ self.nlp # Unset

====
